---- MODULE Spec2Model ----
(***************************************************************************)
(* USB cable capability analyzer (usb_cable_tool.py).                      *)
(*                                                                         *)
(* analyze_cable is a pure function from (active_pins, pin_counts,         *)
(* left_connector, right_connector) to a text report.  The state machine   *)
(* below holds one call frame: the arguments are drawn in Init, Analyze    *)
(* runs the body and leaves the locals the function has when it returns.   *)
(* In that machine (Spec) the two display-only arguments                   *)
(* left_pins_checked / right_pins_checked are left at their default        *)
(* (None), so the "Checked Pins" echo is absent.                           *)
(*                                                                         *)
(* A second machine (SpecUI) is the window USBCableChecker: its checkbox   *)
(* and connector variables, and one action per event handler, each         *)
(* running the handler to its return.                                      *)
(***************************************************************************)
EXTENDS Integers, Sequences, FiniteSets, TLC

VARIABLES active_pins, pin_counts, left_connector, right_connector,
          pc, flags, broken_pairs, wiring_warnings,
          cable_type, cable_note, orientation_note, report,
          self, last_event, events

\* The call frame of analyze_cable.
frame == <<active_pins, pin_counts, left_connector, right_connector,
           pc, flags, broken_pairs, wiring_warnings,
           cable_type, cable_note, orientation_note, report>>

\* The window (USBCableChecker).  self holds self.vars, the two connector
\* StringVars, self._suppress_update (field suppress_update), the text shown
\* in self.report_text, and updates, the number of recomputations of the
\* report made by the last handler.
window == <<self, last_event, events>>

vars == <<frame, window>>

(***************************************************************************)
(* Bounds of the explored argument space.                                  *)
(***************************************************************************)
MaxVbus == 2
MaxGnd == 4

\* The number of window events in a run.
MaxEvents == 2

(***************************************************************************)
(* Static pin data.                                                        *)
(***************************************************************************)
SS_PINS == {"TX1+", "TX1-", "RX1+", "RX1-", "TX2+", "TX2-", "RX2+", "RX2-"}

LANE_1 == {"TX1+", "TX1-", "RX1+", "RX1-"}

LANE_2 == {"TX2+", "TX2-", "RX2+", "RX2-"}

PIN_TOOLTIPS == {"GND", "TX2+", "TX2-", "VBUS", "CC2", "D+", "D-", "SBU2",
                 "RX1-", "RX1+", "RX2+", "RX2-", "SBU1", "CC1", "TX1-", "TX1+"}

\* Python's None for an optional string argument.
None == "<None>"

\* The connector labels the radio buttons can put in the two StringVars.
ConnectorLabels == {"Type A 3.0", "Type A 2.0", "Type C 3.0", "Type B 3.0",
                    "Micro B 3.0", "Mini B 2.0", "Lightning", "Micro B 2.0"}

\* The characters of a string, as Python sees them.
Chars(s) ==
    CASE s = "" -> <<>>
      [] s = "Type C" -> <<"T","y","p","e"," ","C">>
      [] s = "3.0" -> <<"3",".","0">>
      [] s = "TX" -> <<"T","X">>
      [] s = "RX" -> <<"R","X">>
      [] s = "Type A 3.0" -> <<"T","y","p","e"," ","A"," ","3",".","0">>
      [] s = "Type A 2.0" -> <<"T","y","p","e"," ","A"," ","2",".","0">>
      [] s = "Type C 3.0" -> <<"T","y","p","e"," ","C"," ","3",".","0">>
      [] s = "Type B 3.0" -> <<"T","y","p","e"," ","B"," ","3",".","0">>
      [] s = "Micro B 3.0" -> <<"M","i","c","r","o"," ","B"," ","3",".","0">>
      [] s = "Mini B 2.0" -> <<"M","i","n","i"," ","B"," ","2",".","0">>
      [] s = "Lightning" -> <<"L","i","g","h","t","n","i","n","g">>
      [] s = "Micro B 2.0" -> <<"M","i","c","r","o"," ","B"," ","2",".","0">>
      [] s = "TX1+" -> <<"T","X","1","+">>
      [] s = "TX1-" -> <<"T","X","1","-">>
      [] s = "RX1+" -> <<"R","X","1","+">>
      [] s = "RX1-" -> <<"R","X","1","-">>
      [] s = "TX2+" -> <<"T","X","2","+">>
      [] s = "TX2-" -> <<"T","X","2","-">>
      [] s = "RX2+" -> <<"R","X","2","+">>
      [] s = "RX2-" -> <<"R","X","2","-">>

\* Python: needle in hay (substring test on str).
Contains(needle, hay) ==
    \E i \in 1..(Len(hay) - Len(needle) + 1) :
        SubSeq(hay, i, i + Len(needle) - 1) = needle

\* Python: s.startswith(prefix).
StartsWith(s, prefix) ==
    /\ Len(s) >= Len(prefix)
    /\ SubSeq(s, 1, Len(prefix)) = prefix

\* Python: x or "" for an optional string.
OrEmpty(x) == IF x = None THEN "" ELSE x

\* An optional dict argument: <<>> is None, <<d>> is the dict d.
NoCounts == <<>>

\* Python: pin_counts or {} (None and the empty dict are both falsy).
OrEmptyDict(x) == IF x = NoCounts THEN <<>> ELSE x[1]

\* Python: d.get(k, default).
Get(d, k, default) == IF k \in DOMAIN d THEN d[k] ELSE default

(***************************************************************************)
(* Feature detection.                                                      *)
(***************************************************************************)
usb2_full(active) == {"D+", "D-"} \subseteq active

usb2_partial(active) == Cardinality({"D+", "D-"} \cap active) = 1


\* Variant: eight pins are expected as soon as a 3.0 connector is declared.
ExpectedSsPins_EightForAnyUsb3(full_usb_c_candidate, usb3_any) ==
    IF usb3_any THEN 8 ELSE 0

\* Variant: the eight-pin expectation of a full USB-C cable is forgotten.
ExpectedSsPins_NoEight(full_usb_c_candidate, usb3_any) ==
    IF usb3_any THEN 4 ELSE 0

ExpectedSsPins(full_usb_c_candidate, usb3_any) ==
    IF full_usb_c_candidate THEN 8 ELSE (IF usb3_any THEN 4 ELSE 0)


\* Variant: the Lane 2 rule is applied whatever the connectors are.
MismatchSs_AnyConnector(expected_ss_pins, ss_count, usb3_any, usb_c_any, active) ==
    LET base == \/ (expected_ss_pins = 0 /\ ss_count > 0)
                \/ (expected_ss_pins > 0 /\ ss_count > expected_ss_pins)
        lane2_present == Cardinality(LANE_2 \cap active) > 0
    IN  IF usb3_any /\ lane2_present THEN TRUE ELSE base

MismatchSs(expected_ss_pins, ss_count, usb3_any, usb_c_any, active) ==
    LET base == \/ (expected_ss_pins = 0 /\ ss_count > 0)
                \/ (expected_ss_pins > 0 /\ ss_count > expected_ss_pins)
        lane2_present == Cardinality(LANE_2 \cap active) > 0
    IN  IF usb3_any /\ ~usb_c_any /\ lane2_present THEN TRUE ELSE base

PowerFull(full_usb_c_candidate, vbus_count, gnd_count) ==
    IF full_usb_c_candidate
    THEN vbus_count >= 2 /\ gnd_count >= 4
    ELSE vbus_count >= 1 /\ gnd_count >= 1

PowerPartial(vbus_count, gnd_count, power_full) ==
    (vbus_count > 0 \/ gnd_count > 0) /\ ~power_full

\* "Type C" in connector
is_usb_c(connector) == Contains(Chars("Type C"), Chars(connector))

\* "3.0" in connector
is_usb3(connector) == Contains(Chars("3.0"), Chars(connector))

\* The locals of analyze_cable after the feature-detection block, given the
\* normalised arguments and the four connector tests.
Features(active, vbus_count, gnd_count, left, right, left_is_usb_c, right_is_usb_c, left_is_usb3, right_is_usb3, usb2, ss_count, cc_count, lane1_pins, lane2_pins) ==
    LET usb_c_any == left_is_usb_c \/ right_is_usb_c
        usb_c_both == left_is_usb_c /\ right_is_usb_c
        usb3_any == left_is_usb3 \/ right_is_usb3
        usb2_only == ~usb3_any
        full_usb_c_candidate == usb_c_both /\ left_is_usb3 /\ right_is_usb3
        expected_ss_pins == ExpectedSsPins(full_usb_c_candidate, usb3_any)
        power_full == PowerFull(full_usb_c_candidate, vbus_count, gnd_count)
    IN  [ usb2 |-> usb2,
          usb2_partial |-> usb2_partial(active),
          vbus_count |-> vbus_count,
          gnd_count |-> gnd_count,
          lane1_pins |-> lane1_pins,
          lane2_pins |-> lane2_pins,
          lane1_complete |-> Cardinality(lane1_pins) = 4,
          lane2_complete |-> Cardinality(lane2_pins) = 4,
          ss_count |-> ss_count,
          full_ss |-> ss_count = 8,
          partial_ss |-> (0 < ss_count /\ ss_count < 8),
          cc_count |-> cc_count,
          cc_present |-> cc_count > 0,
          sbu_count |-> Cardinality({"SBU1", "SBU2"} \cap active),
          left_connector |-> left,
          right_connector |-> right,
          usb_c_any |-> usb_c_any,
          usb_c_both |-> usb_c_both,
          usb3_any |-> usb3_any,
          usb2_only |-> usb2_only,
          legacy_usb2_candidate |-> (usb2 /\ usb2_only /\ ~usb_c_any),
          legacy_usb3_candidate |-> (usb2 /\ usb3_any /\ ~usb_c_any),
          full_usb_c_candidate |-> full_usb_c_candidate,
          expected_ss_pins |-> expected_ss_pins,
          mismatch_ss |-> MismatchSs(expected_ss_pins, ss_count, usb3_any,
                                     usb_c_any, active),
          power_full |-> power_full,
          power_partial |-> PowerPartial(vbus_count, gnd_count, power_full),
          power |-> power_full ]

FeatureDetection(active, counts_arg, left_arg, right_arg) ==
    Features(active,
             Get(OrEmptyDict(counts_arg), "VBUS", 0),
             Get(OrEmptyDict(counts_arg), "GND", 0),
             OrEmpty(left_arg), OrEmpty(right_arg),
             is_usb_c(OrEmpty(left_arg)), is_usb_c(OrEmpty(right_arg)),
             is_usb3(OrEmpty(left_arg)), is_usb3(OrEmpty(right_arg)),
             usb2_full(active),
             Cardinality(SS_PINS \cap active),
             Cardinality({"CC1", "CC2"} \cap active),
             LANE_1 \cap active, LANE_2 \cap active)

(***************************************************************************)
(* Broken pairs and wiring warnings, in the order the code appends them.   *)
(***************************************************************************)
\* One iteration of the lane loop: the entries the lane appends.
LanePairs(lane_name, lane_pins, active) ==
    LET tx_pins == {p \in lane_pins : StartsWith(Chars(p), Chars("TX"))}
        rx_pins == {p \in lane_pins : StartsWith(Chars(p), Chars("RX"))}
        tx_active == tx_pins \cap active
        rx_active == rx_pins \cap active
    IN  (IF Cardinality(tx_active) = 1
         THEN <<lane_name \o " TX pair broken">> ELSE <<>>)
        \o
        (IF Cardinality(rx_active) = 1
         THEN <<lane_name \o " RX pair broken">> ELSE <<>>)

\* for lane_name, lane_pins in [("Lane 1", LANE_1), ("Lane 2", LANE_2)]
RECURSIVE LaneLoop(_, _)
LaneLoop(lanes, active) ==
    IF lanes = <<>> THEN <<>>
    ELSE LanePairs(Head(lanes)[1], Head(lanes)[2], active)
         \o LaneLoop(Tail(lanes), active)


\* Variant: lanes are examined only when eight pins are expected.
LaneDefects_OnlyFullC(expected_ss_pins, active) ==
    IF expected_ss_pins > 4
    THEN LaneLoop(<< <<"Lane 1", LANE_1>>, <<"Lane 2", LANE_2>> >>, active)
    ELSE <<>>

LaneDefects(expected_ss_pins, active) ==
    IF expected_ss_pins > 0
    THEN LaneLoop(<< <<"Lane 1", LANE_1>>, <<"Lane 2", LANE_2>> >>, active)
    ELSE <<>>

Usb2Defects(f) ==
    IF f.usb2_partial THEN <<"USB 2.0 D+/D- pair broken">> ELSE <<>>


\* Variant: the power defect is never appended.
PowerDefects_Dropped(f) == <<>>

PowerDefects(f) ==
    IF f.power_partial THEN <<"Power wiring incomplete (VBUS/GND)">> ELSE <<>>


\* Variant: a missing CC is reported only when both connectors are USB-C.
CcDefects_BothC(f) ==
    IF f.usb_c_both /\ f.cc_count = 0
    THEN <<"CC wiring missing (USB-C selected)">> ELSE <<>>

\* Variant: a single CC line is reported as missing CC wiring.
CcDefects_NeedsBoth(f) ==
    IF f.usb_c_any /\ f.cc_count < 2
    THEN <<"CC wiring missing (USB-C selected)">> ELSE <<>>

CcDefects(f) ==
    IF f.usb_c_any /\ f.cc_count = 0
    THEN <<"CC wiring missing (USB-C selected)">> ELSE <<>>


\* Variant: the power test is made before the USB 2.0 test.
DetectBrokenPairs_PowerFirst(f, active) ==
    LaneDefects(f.expected_ss_pins, active) \o PowerDefects(f)
        \o Usb2Defects(f) \o CcDefects(f)

DetectBrokenPairs(f, active) ==
    LaneDefects(f.expected_ss_pins, active) \o Usb2Defects(f)
        \o PowerDefects(f) \o CcDefects(f)

DetectWiringWarnings(f) ==
    IF f.usb_c_any /\ f.cc_count = 0 THEN <<>>
    ELSE IF f.full_usb_c_candidate /\ f.cc_count = 1
         THEN <<"CC wiring incomplete (USB-C)">> ELSE <<>>

(***************************************************************************)
(* Classification: the if/elif chain, first match wins.                    *)
(***************************************************************************)
single_lane_ss(f) ==
    (f.lane1_complete # f.lane2_complete) /\ f.ss_count = 4

\* Exactly one lane complete: the test guarding every orientation note.
OneLaneOnly(f) ==
    \/ (f.lane1_complete /\ ~f.lane2_complete)
    \/ (f.lane2_complete /\ ~f.lane1_complete)

\* The number of the branch of the chain that is taken (1..10).

\* Variant: the mismatch test is made before the broken-pair test.
Branch_MismatchFirst(f, broken) ==
    IF f.mismatch_ss THEN 2
    ELSE IF broken # <<>> THEN 1
    ELSE IF f.full_ss /\ f.sbu_count = 2 /\ f.usb2 /\ f.cc_present THEN 3
    ELSE IF f.full_ss /\ f.usb2 /\ f.cc_present THEN 4
    ELSE IF f.usb2 /\ single_lane_ss(f) THEN 5
    ELSE IF f.usb2 /\ ~f.full_ss /\ ~f.partial_ss THEN 6
    ELSE IF f.power /\ ~f.usb2 /\ f.ss_count = 0 THEN 7
    ELSE IF f.power_partial /\ ~f.usb2 /\ f.ss_count = 0 THEN 8
    ELSE IF f.usb2 /\ f.partial_ss THEN 9
    ELSE 10

Branch(f, broken) ==
    IF broken # <<>> THEN 1
    ELSE IF f.mismatch_ss THEN 2
    ELSE IF f.full_ss /\ f.sbu_count = 2 /\ f.usb2 /\ f.cc_present THEN 3
    ELSE IF f.full_ss /\ f.usb2 /\ f.cc_present THEN 4
    ELSE IF f.usb2 /\ single_lane_ss(f) THEN 5
    ELSE IF f.usb2 /\ ~f.full_ss /\ ~f.partial_ss THEN 6
    ELSE IF f.power /\ ~f.usb2 /\ f.ss_count = 0 THEN 7
    ELSE IF f.power_partial /\ ~f.usb2 /\ f.ss_count = 0 THEN 8
    ELSE IF f.usb2 /\ f.partial_ss THEN 9
    ELSE 10

DAMAGED_CABLE == "DAMAGED CABLE - Broken wiring detected"

CONNECTOR_MISMATCH == "Mismatch: Connector selection vs detected wiring"

PREMIUM_USB_C == "Premium USB-C Cable (Full Featured)"

USB3_FAST_DATA == "USB 3.x Fast Data Cable"

USB3_SINGLE_LANE == "USB 3.x Data Cable (Single-Lane)"

USB2_DATA == "USB 2.0 Data Cable"

CHARGING_CABLE == "Charging Cable"

CHARGING_INCOMPLETE == "Charging Cable (Incomplete Power Wiring)"

NON_STANDARD == "NON-STANDARD Cable"

UNKNOWN == "Unknown Cable"

CableType(branch) ==
    CASE branch = 1 -> DAMAGED_CABLE
      [] branch = 2 -> CONNECTOR_MISMATCH
      [] branch = 3 -> PREMIUM_USB_C
      [] branch = 4 -> USB3_FAST_DATA
      [] branch = 5 -> USB3_SINGLE_LANE
      [] branch = 6 -> USB2_DATA
      [] branch = 7 -> CHARGING_CABLE
      [] branch = 8 -> CHARGING_INCOMPLETE
      [] branch = 9 -> NON_STANDARD
      [] branch = 10 -> UNKNOWN

CableNote(branch, f) ==
    CASE branch = 1 -> "This cable has broken or missing connections. Do not use for data transfer."
      [] branch = 2 -> "Selected connectors do not match detected SuperSpeed wiring."
      [] branch = 3 -> "Supports high-speed data, Alt-Mode (video/display output), and advanced features."
      [] branch = 4 -> "Supports high-speed data transfer. Good for modern devices."
      [] branch = 5 -> IF f.legacy_usb3_candidate
                       THEN "Single SuperSpeed lane detected (legacy USB 3.0 connectors)."
                       ELSE "Single SuperSpeed lane detected (common in USB-A/B to USB-C cables)."
      [] branch = 6 -> IF f.legacy_usb2_candidate
                       THEN "Legacy USB 2.0 wiring detected (USB-A/B/Micro/Mini/Lightning)."
                       ELSE "Good for basic data transfer, charging, and older devices."
      [] branch = 7 -> "Supports power delivery only. Not suitable for data transfer."
      [] branch = 8 -> "Power wiring is incomplete. Charging may be unstable or unsafe."
      [] branch = 9 -> "Has incomplete or damaged SuperSpeed connections. May work but not recommended."
      [] branch = 10 -> "Unable to determine cable type. May be defective."


\* Variant: the single-lane outcome always carries the note.
OrientationNote_SingleLaneAlways(branch, f) ==
    IF branch \in {3, 4, 9} /\ OneLaneOnly(f)
    THEN "Works in one orientation only"
    ELSE IF branch = 5
         THEN "Works in one orientation only"
         ELSE ""

OrientationNote(branch, f) ==
    IF branch \in {3, 4, 9} /\ OneLaneOnly(f)
    THEN "Works in one orientation only"
    ELSE IF branch = 5 /\ ~f.legacy_usb3_candidate
         THEN "Works in one orientation only"
         ELSE ""

(***************************************************************************)
(* The report: the lines of "\n".join(report), each line the sequence of   *)
(* the text fragments the f-string joins (<<>> is an empty line).  The     *)
(* bullet and the arrow of the source text are written "*" and "<->".      *)
(***************************************************************************)
TriState(yes, partial) == IF yes THEN "Yes" ELSE (IF partial THEN "Partial" ELSE "No")

LaneLine(label, complete, pins) ==
    IF complete THEN <<"  * ", label, ": OK">>
    ELSE IF Cardinality(pins) > 0
         THEN <<"  * ", label, ": INCOMPLETE (", ToString(Cardinality(pins)), "/4 pins)">>
         ELSE <<"  * ", label, ": MISSING">>

Bullets(items) == [i \in 1..Len(items) |-> <<"  * ", items[i]>>]

BuildReport(f, type, note, orientation, broken, warnings) ==
    << <<type>>, <<note>> >>
    \o (IF f.left_connector # "" \/ f.right_connector # ""
        THEN << <<"Selected connectors: ",
                  IF f.left_connector # "" THEN f.left_connector ELSE "Unknown",
                  " <-> ",
                  IF f.right_connector # "" THEN f.right_connector ELSE "Unknown">> >>
        ELSE <<>>)
    \o (IF orientation # "" THEN << <<"Note: ", orientation>> >> ELSE <<>>)
    \o << <<>>, <<"Capabilities:">>,
          <<"  * USB 2.0 data: ", TriState(f.usb2, f.usb2_partial)>>,
          <<"  * Power delivery: ", TriState(f.power, f.power_partial)>>,
          <<"  * SuperSpeed (USB 3.x): ", TriState(f.full_ss, f.partial_ss),
            " (expected ", ToString(f.expected_ss_pins), "/8 pins)">>,
          <<"  * Alt-Mode wiring (SBU): ", TriState(f.sbu_count = 2, f.sbu_count = 1),
            " (not a guarantee of Alt-Mode)">>,
          <<>>, <<"SuperSpeed Lanes (", ToString(f.ss_count), "/8 pins detected):">>,
          LaneLine("Lane 1 (TX1/RX1)", f.lane1_complete, f.lane1_pins),
          LaneLine("Lane 2 (TX2/RX2)", f.lane2_complete, f.lane2_pins) >>
    \o (IF broken # <<>>
        THEN << <<>>, <<"Broken Differential Pairs:">> >> \o Bullets(broken)
        ELSE <<>>)
    \o (IF warnings # <<>>
        THEN << <<>>, <<"Wiring Warnings:">> >> \o Bullets(warnings)
        ELSE <<>>)
    \o << <<>>, <<"Configuration:">>,
          <<"  * CC (Config Channel): ", TriState(f.cc_count = 2, f.cc_count = 1)>>,
          <<"  * SBU (Sideband): ", ToString(f.sbu_count), "/2 lines">> >>

(***************************************************************************)
(* The "Checked Pins" echo of the report.  An entry "02 RX2+" is held as   *)
(* its two space-separated fields <<"02", "RX2+">>.                        *)
(***************************************************************************)
\* f"{n:02d}"
Pad2(n) == IF n < 10 THEN "0" \o ToString(n) ELSE ToString(n)

\* int(s) for the two-digit strings a position is written as.
IntOf(s) ==
    CASE s = "01" -> 1 [] s = "02" -> 2 [] s = "03" -> 3 [] s = "04" -> 4
      [] s = "05" -> 5 [] s = "06" -> 6 [] s = "07" -> 7 [] s = "08" -> 8
      [] s = "09" -> 9 [] s = "10" -> 10 [] s = "11" -> 11 [] s = "12" -> 12

\* s.isdigit(), for the first field of an entry.
IsDigit(s) ==
    s \in {"01", "02", "03", "04", "05", "06", "07", "08", "09", "10", "11", "12"}

\* The sort key: int(p.split()[0]) if p.split()[0].isdigit() else 999
SortKey(entry) == IF IsDigit(entry[1]) THEN IntOf(entry[1]) ELSE 999

\* The entries in increasing order of the keys k, for distinct keys.
OrderedBy(entries, k) ==
    [i \in 1..Cardinality(entries) |->
        CHOOSE e \in entries : Cardinality({o \in entries : k[o] < k[e]}) = i - 1]

\* sorted(entries, key=...)
SortedByKey(entries) == OrderedBy(entries, [e \in entries |-> SortKey(e)])

\* ", ".join(...)
RECURSIVE JoinComma(_)
JoinComma(entries) ==
    IF entries = <<>> THEN <<>>
    ELSE <<Head(entries)[1], " ", Head(entries)[2]>>
         \o (IF Tail(entries) = <<>> THEN <<>> ELSE <<", ">>)
         \o JoinComma(Tail(entries))

CheckedPinsSection(left_pins_checked, right_pins_checked) ==
    IF left_pins_checked = {} /\ right_pins_checked = {} THEN <<>>
    ELSE << <<>>, <<"Checked Pins:">> >>
         \o (IF left_pins_checked # {}
             THEN << <<"  Left (Row B): ">> \o JoinComma(SortedByKey(left_pins_checked)) >>
             ELSE <<>>)
         \o (IF right_pins_checked # {}
             THEN << <<"  Right (Row A): ">> \o JoinComma(SortedByKey(right_pins_checked)) >>
             ELSE <<>>)

\* The text analyze_cable returns, as lines; an absent (None) set of checked
\* pins is the empty set, both being falsy.
ReportOfBranch(f, branch, broken, warnings, left_pins_checked, right_pins_checked) ==
    BuildReport(f, CableType(branch), CableNote(branch, f),
                OrientationNote(branch, f), broken, warnings)
    \o CheckedPinsSection(left_pins_checked, right_pins_checked)

ReportOfDefects(f, broken, warnings, left_pins_checked, right_pins_checked) ==
    ReportOfBranch(f, Branch(f, broken), broken, warnings,
                   left_pins_checked, right_pins_checked)

ReportOfFeatures(f, active, left_pins_checked, right_pins_checked) ==
    ReportOfDefects(f, DetectBrokenPairs(f, active), DetectWiringWarnings(f),
                    left_pins_checked, right_pins_checked)

analyze_cable(active, counts_arg, left_arg, right_arg, left_pins_checked, right_pins_checked) ==
    ReportOfFeatures(FeatureDetection(active, counts_arg, left_arg, right_arg),
                     active, left_pins_checked, right_pins_checked)

(***************************************************************************)
(* The window.                                                             *)
(***************************************************************************)
LEFT_PINS == <<"GND", "TX2+", "TX2-", "VBUS", "CC2", "D+", "D-", "SBU2",
               "VBUS", "RX1-", "RX1+", "GND">>

RIGHT_PINS == <<"GND", "RX2+", "RX2-", "VBUS", "SBU1", "D-", "D+", "CC1",
                "VBUS", "TX1-", "TX1+", "GND">>

\* The values of the radio buttons of the two selectors.
LeftConnectorValues == {"Type A 3.0", "Type A 2.0", "Type C 3.0"}

RightConnectorValues == {"Type B 3.0", "Type C 3.0", "Micro B 3.0",
                         "Mini B 2.0", "Lightning", "Micro B 2.0"}

\* The keys of self.vars in insertion order; the key f"{pin}_{i}" is held
\* as the two fields <<pin, i>> that key.split("_") gives back.
VarKeys ==
    [i \in 1..12 |-> <<LEFT_PINS[i], i - 1>>]
    \o [i \in 1..12 |-> <<RIGHT_PINS[i], i - 1 + 20>>]

VarKeySet == {VarKeys[i] : i \in DOMAIN VarKeys}

right_side_translation ==
    [label \in {"RX2+", "RX2-", "D-", "D+", "TX1-", "TX1+"} |->
        CASE label = "RX2+" -> "TX1+"
          [] label = "RX2-" -> "TX1-"
          [] label = "D-" -> "D+"
          [] label = "D+" -> "D-"
          [] label = "TX1-" -> "RX2-"
          [] label = "TX1+" -> "RX2+"]

\* One iteration of the loop of _active_pins over a checked key.
AddCheckedPin(acc, key) ==
    LET pin_label == key[1]
        pin_index == key[2]
        logical_name == IF pin_index >= 20
                        THEN Get(right_side_translation, pin_label, pin_label)
                        ELSE pin_label
        counts == acc.pin_counts
    IN  [ active_pins |-> acc.active_pins \cup {logical_name},
          pin_counts |-> [p \in DOMAIN counts \cup {logical_name} |->
                             IF p = logical_name
                             THEN Get(counts, logical_name, 0) + 1
                             ELSE counts[p]],
          left_pins_checked |->
              IF pin_index >= 20 THEN acc.left_pins_checked
              ELSE acc.left_pins_checked \cup {<<Pad2(pin_index + 1), pin_label>>},
          right_pins_checked |->
              IF pin_index >= 20
              THEN acc.right_pins_checked \cup {<<Pad2(pin_index - 19), pin_label>>}
              ELSE acc.right_pins_checked ]

\* for key, var in self.vars.items(): if var.get(): ...
RECURSIVE ActivePinsLoop(_, _, _)
ActivePinsLoop(keys, boxes, acc) ==
    IF keys = <<>> THEN acc
    ELSE ActivePinsLoop(Tail(keys), boxes,
                        IF boxes[Head(keys)] THEN AddCheckedPin(acc, Head(keys))
                        ELSE acc)

ActivePinsOf(boxes) ==
    ActivePinsLoop(VarKeys, boxes,
                   [active_pins |-> {}, pin_counts |-> <<>>,
                    left_pins_checked |-> {}, right_pins_checked |-> {}])

\* _build_report_text on the result of _active_pins.
BuildReportText(a, left_var, right_var) ==
    analyze_cable(a.active_pins, <<a.pin_counts>>, left_var, right_var,
                  a.left_pins_checked, a.right_pins_checked)

\* _update_report on the window w.
UpdateReport(w) ==
    IF w.suppress_update THEN w
    ELSE [w EXCEPT !.report_text = BuildReportText(ActivePinsOf(w.vars),
                                                   w.left_connector_var,
                                                   w.right_connector_var),
                   !.updates = @ + 1]

\* var.set(value) on a checkbox variable: the write trace runs _update_report.
SetCheckbox(w, key, value) == UpdateReport([w EXCEPT !.vars[key] = value])

\* for var in self.vars.values(): var.set(value)
RECURSIVE SetAllLoop(_, _, _)
SetAllLoop(keys, value, w) ==
    IF keys = <<>> THEN w
    ELSE SetCheckbox(SetAllLoop(SubSeq(keys, 1, Len(keys) - 1), value, w),
                     keys[Len(keys)], value)

\* Variant: _suppress_update is not lowered again after the loop.
SetAll_LeavesSuppressed(w, value) ==
    UpdateReport(SetAllLoop(VarKeys, value, [w EXCEPT !.suppress_update = TRUE]))

\* _set_all(value)
SetAll(w, value) ==
    UpdateReport([SetAllLoop(VarKeys, value, [w EXCEPT !.suppress_update = TRUE])
                     EXCEPT !.suppress_update = FALSE])

\* The window when __init__ returns: nothing checked, both selectors on
\* "Type C 3.0", the report computed once at the end of _build_ui.
NewWindow ==
    UpdateReport([vars |-> [k \in VarKeySet |-> FALSE],
                  left_connector_var |-> "Type C 3.0",
                  right_connector_var |-> "Type C 3.0",
                  suppress_update |-> FALSE,
                  report_text |-> <<>>,
                  updates |-> 0])

\* The window at the start of a handler.
Window == [self EXCEPT !.updates = 0]

(***************************************************************************)
(* The arguments a call can be made with.                                  *)
(***************************************************************************)
Pins == PIN_TOOLTIPS

ConnectorArgs == ConnectorLabels \cup {None}

\* A dict holding the VBUS / GND occurrence counts; a pin that occurs no
\* time has no key, as in _active_pins.
CountsDict(v, g) ==
    [p \in ({q \in {"VBUS"} : v > 0} \cup {q \in {"GND"} : g > 0})
        |-> IF p = "VBUS" THEN v ELSE g]

PinCountsArgs ==
    {NoCounts} \cup {<<CountsDict(v, g)>> : v \in 0..MaxVbus, g \in 0..MaxGnd}

\* The explored calls are two families.
\* Wiring calls: every subset of the fourteen signal pins, no counts, each
\* connector one of none / USB-A 2.0 / USB-A 3.0 / USB-C.
SignalPins == Pins \ {"VBUS", "GND"}

WiringConnectorArgs == {None, "Type A 2.0", "Type A 3.0", "Type C 3.0"}

\* Power calls: every subset of the power, USB 2.0, CC and Lane 1 TX pins,
\* every counts argument, every pair of connectors.
PowerCallPins == {"VBUS", "GND", "D+", "D-", "CC1", "CC2", "TX1+", "TX1-"}

WiringCall ==
    /\ active_pins \in SUBSET SignalPins
    /\ pin_counts = NoCounts
    /\ left_connector \in WiringConnectorArgs
    /\ right_connector \in WiringConnectorArgs

PowerCall ==
    /\ active_pins \in SUBSET PowerCallPins
    /\ pin_counts \in PinCountsArgs
    /\ left_connector \in ConnectorArgs
    /\ right_connector \in ConnectorArgs

NoFlags == [usb2 |-> FALSE]

Init ==
    /\ WiringCall \/ PowerCall
    /\ pc = "call"
    /\ flags = NoFlags
    /\ broken_pairs = <<>>
    /\ wiring_warnings = <<>>
    /\ cable_type = ""
    /\ cable_note = ""
    /\ orientation_note = ""
    /\ report = <<>>
    /\ self = NewWindow
    /\ last_event = "init"
    /\ events = 0

\* One call of analyze_cable, from entry to return.
Analyze ==
    /\ pc = "call"
    /\ flags' = FeatureDetection(active_pins, pin_counts,
                                 left_connector, right_connector)
    /\ broken_pairs' = DetectBrokenPairs(flags', active_pins)
    /\ wiring_warnings' = DetectWiringWarnings(flags')
    /\ cable_type' = CableType(Branch(flags', broken_pairs'))
    /\ cable_note' = CableNote(Branch(flags', broken_pairs'), flags')
    /\ orientation_note' = OrientationNote(Branch(flags', broken_pairs'), flags')
    /\ report' = BuildReport(flags', cable_type', cable_note', orientation_note',
                             broken_pairs', wiring_warnings')
    /\ pc' = "return"
    /\ UNCHANGED <<active_pins, pin_counts, left_connector, right_connector>>
    /\ UNCHANGED window

Next == Analyze

Spec == Init /\ [][Next]_vars

(***************************************************************************)
(* The window's event handlers; no call frame is kept for them.            *)
(***************************************************************************)
InitUI ==
    /\ active_pins = {}
    /\ pin_counts = NoCounts
    /\ left_connector = None
    /\ right_connector = None
    /\ pc = "mainloop"
    /\ flags = NoFlags
    /\ broken_pairs = <<>>
    /\ wiring_warnings = <<>>
    /\ cable_type = ""
    /\ cable_note = ""
    /\ orientation_note = ""
    /\ report = <<>>
    /\ self = NewWindow
    /\ last_event = "init"
    /\ events = 0

\* The window after an event's handler has returned.
Handled(w, event) ==
    /\ events < MaxEvents
    /\ events' = events + 1
    /\ last_event' = event
    /\ self' = w
    /\ UNCHANGED frame

\* A click on one checkbox.
ToggleCheckbox ==
    \E key \in VarKeySet :
        Handled(SetCheckbox(Window, key, ~self.vars[key]), "toggle")

\* A click on a radio button of the left selector.
SelectLeftConnector ==
    \E value \in LeftConnectorValues :
        Handled(UpdateReport([Window EXCEPT !.left_connector_var = value]), "left")

\* A click on a radio button of the right selector.
SelectRightConnector ==
    \E value \in RightConnectorValues :
        Handled(UpdateReport([Window EXCEPT !.right_connector_var = value]), "right")

SelectAll == Handled(SetAll(Window, TRUE), "select_all")

UnselectAll == Handled(SetAll(Window, FALSE), "unselect_all")

NextUI ==
    \/ ToggleCheckbox
    \/ SelectLeftConnector
    \/ SelectRightConnector
    \/ SelectAll
    \/ UnselectAll

SpecUI == InitUI /\ [][NextUI]_vars

(***************************************************************************)
(* Vocabulary of the properties, stated on the arguments of the call.      *)
(***************************************************************************)
Returned == pc = "return"

Has(seq, x) == \E i \in DOMAIN seq : seq[i] = x

\* Connector labels that name a USB 3.x connector / a USB-C connector.
Usb3Labels == {"Type A 3.0", "Type B 3.0", "Type C 3.0", "Micro B 3.0"}

TypeCLabels == {"Type C 3.0"}

Declares3 == left_connector \in Usb3Labels \/ right_connector \in Usb3Labels

DeclaresC == left_connector \in TypeCLabels \/ right_connector \in TypeCLabels

DeclaresBothC == left_connector \in TypeCLabels /\ right_connector \in TypeCLabels

ExactlyOne(a, b) == (a \in active_pins) # (b \in active_pins)

NoCountsGiven == pin_counts = NoCounts \/ pin_counts = << <<>> >>

\* What the broken-pair list owes to the two pairs of each lane.
LaneEntriesListed ==
    /\ ExactlyOne("TX1+", "TX1-") => Has(broken_pairs, "Lane 1 TX pair broken")
    /\ ExactlyOne("RX1+", "RX1-") => Has(broken_pairs, "Lane 1 RX pair broken")
    /\ ExactlyOne("TX2+", "TX2-") => Has(broken_pairs, "Lane 2 TX pair broken")
    /\ ExactlyOne("RX2+", "RX2-") => Has(broken_pairs, "Lane 2 RX pair broken")

SomeLanePairBroken ==
    \/ ExactlyOne("TX1+", "TX1-") \/ ExactlyOne("RX1+", "RX1-")
    \/ ExactlyOne("TX2+", "TX2-") \/ ExactlyOne("RX2+", "RX2-")

(***************************************************************************)
(* C1                                                                      *)
(***************************************************************************)
\* C1 as stated: for every call, a lane pair with exactly one active pin is
\* listed as "Lane N TX/RX pair broken" and the cable is classified DAMAGED
\* CABLE; {TX1+, D+, D-} with no connectors and no counts lists "Lane 1 TX
\* pair broken" and is DAMAGED CABLE.
C1_AsStated ==
    Returned =>
        /\ LaneEntriesListed
        /\ SomeLanePairBroken => cable_type = DAMAGED_CABLE

\* C1 amended: when at least one declared connector is a 3.0 connector, a
\* lane pair with exactly one active pin is listed as "Lane N TX/RX pair
\* broken" and the cable is classified DAMAGED CABLE; when no 3.0 connector
\* is declared the lanes are not examined and no lane entry is listed, so
\* {TX1+, D+, D-} with no connectors and no counts lists no broken pair and
\* is classified as a connector mismatch.
C1_LanePairsWhenUsb3 ==
    Returned =>
        /\ Declares3 =>
              /\ LaneEntriesListed
              /\ SomeLanePairBroken => cable_type = DAMAGED_CABLE
        /\ ~Declares3 =>
              \A n \in {"Lane 1", "Lane 2"}, d \in {" TX", " RX"} :
                  ~Has(broken_pairs, n \o d \o " pair broken")
        /\ ( /\ active_pins = {"TX1+", "D+", "D-"}
             /\ left_connector = None /\ right_connector = None
             /\ pin_counts = NoCounts )
           => broken_pairs = <<>> /\ cable_type = CONNECTOR_MISMATCH

C1_Witness ==
    /\ Returned
    /\ active_pins = {"TX1+", "D+", "D-"}
    /\ left_connector = "Type A 3.0" /\ right_connector = None
    /\ broken_pairs = <<"Lane 1 TX pair broken">>
    /\ cable_type = DAMAGED_CABLE

(***************************************************************************)
(* C2                                                                      *)
(***************************************************************************)
\* C2: when pin_counts is not supplied, presence of VBUS / GND in
\* active_pins counts as one occurrence; for active_pins = {VBUS, GND} with
\* no counts and no 3.x connector, power_full is true, the report says
\* "Power delivery: Yes" and the classification is Charging Cable.
C2_PresenceCountsAsOne ==
    (Returned /\ pin_counts = NoCounts) =>
        /\ flags.vbus_count = (IF "VBUS" \in active_pins THEN 1 ELSE 0)
        /\ flags.gnd_count = (IF "GND" \in active_pins THEN 1 ELSE 0)
        /\ (active_pins = {"VBUS", "GND"} /\ ~Declares3) =>
              /\ flags.power_full
              /\ Has(report, <<"  * Power delivery: ", "Yes">>)
              /\ cable_type = CHARGING_CABLE

C4_DamagedIffBroken ==
    Returned => (broken_pairs # <<>> <=> cable_type = DAMAGED_CABLE)

C4_Witness ==
    /\ Returned
    /\ broken_pairs # <<>>
    /\ flags.mismatch_ss /\ flags.full_ss /\ flags.sbu_count = 2 /\ flags.cc_present
    /\ cable_type = DAMAGED_CABLE

(***************************************************************************)
(* C5                                                                      *)
(***************************************************************************)
NoteLine == <<"Note: ", "Works in one orientation only">>

ExactlyOneLaneComplete ==
    (LANE_1 \subseteq active_pins) # (LANE_2 \subseteq active_pins)

\* C5 as stated: the report carries the note "Works in one orientation
\* only" if and only if exactly one SuperSpeed lane is complete and the
\* classification is Premium USB-C, USB 3.x Fast Data, USB 3.x Single-Lane
\* or NON-STANDARD; every Single-Lane call carries the note.
C5_AsStated ==
    Returned =>
        /\ Has(report, NoteLine) <=>
              /\ ExactlyOneLaneComplete
              /\ cable_type \in {PREMIUM_USB_C, USB3_FAST_DATA,
                                 USB3_SINGLE_LANE, NON_STANDARD}
        /\ cable_type = USB3_SINGLE_LANE => Has(report, NoteLine)

\* C5 amended: the report carries the note if and only if exactly one
\* SuperSpeed lane is complete and the classification is Premium USB-C,
\* USB 3.x Fast Data or NON-STANDARD, or is USB 3.x Single-Lane with a USB-C
\* connector declared; a Single-Lane call between legacy USB 3.0 connectors
\* (none of them USB-C) carries no note.
C5_NoteUnlessLegacy ==
    Returned =>
        /\ Has(report, NoteLine) <=>
              /\ ExactlyOneLaneComplete
              /\ \/ cable_type \in {PREMIUM_USB_C, USB3_FAST_DATA, NON_STANDARD}
                 \/ cable_type = USB3_SINGLE_LANE /\ DeclaresC
        /\ (cable_type = USB3_SINGLE_LANE /\ ~DeclaresC) => ~Has(report, NoteLine)
        /\ Has(report, NoteLine) <=> orientation_note # ""

C5_Witness ==
    /\ Returned
    /\ cable_type = USB3_SINGLE_LANE
    /\ left_connector = "Type A 3.0" /\ right_connector = "Type A 3.0"
    /\ ExactlyOneLaneComplete
    /\ ~Has(report, NoteLine)

(***************************************************************************)
(* C6                                                                      *)
(***************************************************************************)
Outcomes == {DAMAGED_CABLE, CONNECTOR_MISMATCH, PREMIUM_USB_C, USB3_FAST_DATA,
             USB3_SINGLE_LANE, USB2_DATA, CHARGING_CABLE, CHARGING_INCOMPLETE,
             NON_STANDARD, UNKNOWN}

\* C6 as stated: for the empty active-pin set with empty or absent counts
\* and every pair of declared connectors, none included, the call returns
\* and the classification is Unknown Cable.
C6_AsStated ==
    /\ (pc = "call" /\ active_pins = {}) => ENABLED Analyze
    /\ (Returned /\ active_pins = {} /\ NoCountsGiven) => cable_type = UNKNOWN

\* C6 amended: every call that returns gives one of the ten classifications
\* and a call with the empty active-pin set does return; for the empty
\* active-pin set with empty or absent counts the classification is
\* Unknown Cable when neither declared connector is USB-C, and DAMAGED
\* CABLE with the single entry "CC wiring missing (USB-C selected)" when a
\* declared connector is USB-C.
C6_EmptyPins ==
    /\ (pc = "call" /\ active_pins = {}) => ENABLED Analyze
    /\ Returned => cable_type \in Outcomes
    /\ (Returned /\ active_pins = {} /\ NoCountsGiven) =>
          IF DeclaresC
          THEN /\ cable_type = DAMAGED_CABLE
               /\ broken_pairs = <<"CC wiring missing (USB-C selected)">>
          ELSE /\ cable_type = UNKNOWN
               /\ broken_pairs = <<>>

C6_Witness ==
    /\ Returned
    /\ active_pins = {} /\ pin_counts = << <<>> >>
    /\ left_connector = "Lightning" /\ right_connector = "Micro B 3.0"
    /\ cable_type = UNKNOWN

(***************************************************************************)
(* C7                                                                      *)
(***************************************************************************)
\* The VBUS / GND counts of the call, read off the argument.
GivenCount(pin) ==
    IF pin_counts # NoCounts /\ pin \in DOMAIN pin_counts[1]
    THEN pin_counts[1][pin] ELSE 0

\* No defect other than a CC defect, for a call with both connectors USB-C.
NoOtherDefectBothC ==
    /\ ~SomeLanePairBroken
    /\ ~ExactlyOne("D+", "D-")
    /\ \/ GivenCount("VBUS") = 0 /\ GivenCount("GND") = 0
       \/ GivenCount("VBUS") >= 2 /\ GivenCount("GND") >= 4

\* C7: when both declared connectors are Type C 3.0 and exactly one of
\* CC1 / CC2 is active, the wiring warnings hold "CC wiring incomplete
\* (USB-C)", the broken-pair list holds no CC entry, and with no other
\* defect the classification is not DAMAGED CABLE.
C7_SingleCcIsWarning ==
    (Returned /\ DeclaresBothC /\ ExactlyOne("CC1", "CC2")) =>
        /\ wiring_warnings = <<"CC wiring incomplete (USB-C)">>
        /\ Has(report, <<"  * ", "CC wiring incomplete (USB-C)">>)
        /\ ~Has(broken_pairs, "CC wiring missing (USB-C selected)")
        /\ ~Has(broken_pairs, "CC wiring incomplete (USB-C)")
        /\ NoOtherDefectBothC =>
              broken_pairs = <<>> /\ cable_type # DAMAGED_CABLE

C7_Witness ==
    /\ Returned /\ DeclaresBothC
    /\ active_pins = SS_PINS \cup {"D+", "D-", "CC2"}
    /\ wiring_warnings = <<"CC wiring incomplete (USB-C)">>
    /\ cable_type = USB3_FAST_DATA

(***************************************************************************)
(* C8                                                                      *)
(***************************************************************************)
FullFeaturedPins == SS_PINS \cup {"D+", "D-", "CC1", "CC2", "SBU1", "SBU2"}

\* C8: with both connectors "Type C 3.0", the eight SuperSpeed pins and
\* D+, D-, CC1, CC2, SBU1, SBU2 active, no VBUS / GND and no counts, the
\* classification is Premium USB-C (Full Featured), the broken-pair list
\* is empty and no orientation note is emitted.
C8_PremiumScenario ==
    ( /\ Returned /\ DeclaresBothC
      /\ active_pins = FullFeaturedPins
      /\ pin_counts = NoCounts )
    => /\ cable_type = PREMIUM_USB_C
       /\ broken_pairs = <<>>
       /\ orientation_note = ""
       /\ ~Has(report, NoteLine)
       /\ report[1] = <<PREMIUM_USB_C>>

C8_Witness ==
    /\ Returned /\ DeclaresBothC
    /\ active_pins = FullFeaturedPins
    /\ pin_counts = NoCounts
    /\ cable_type = PREMIUM_USB_C

(***************************************************************************)
(* C9                                                                      *)
(***************************************************************************)
DefectOrder ==
    <<"Lane 1 TX pair broken", "Lane 1 RX pair broken",
      "Lane 2 TX pair broken", "Lane 2 RX pair broken",
      "USB 2.0 D+/D- pair broken", "Power wiring incomplete (VBUS/GND)",
      "CC wiring missing (USB-C selected)">>

DefectRank(x) == CHOOSE k \in DOMAIN DefectOrder : DefectOrder[k] = x

\* The bullet lines of the report that list a broken pair.
IsDefectLine(line) == Len(line) = 2 /\ Has(DefectOrder, line[2])

\* C9: the broken-pair list is a duplicate-free subsequence of the fixed
\* order Lane 1 TX, Lane 1 RX, Lane 2 TX, Lane 2 RX, USB 2.0 D+/D-, power
\* wiring, CC wiring, and the report lists the entries in that order.
C9_FixedDefectOrder ==
    Returned =>
        /\ \A i \in DOMAIN broken_pairs : Has(DefectOrder, broken_pairs[i])
        /\ \A i, j \in DOMAIN broken_pairs :
              i < j => DefectRank(broken_pairs[i]) < DefectRank(broken_pairs[j])
        /\ SelectSeq(report, IsDefectLine)
              = [i \in DOMAIN broken_pairs |-> <<"  * ", broken_pairs[i]>>]

C9_Witness ==
    /\ Returned
    /\ broken_pairs = <<"Lane 1 TX pair broken", "USB 2.0 D+/D- pair broken",
                        "Power wiring incomplete (VBUS/GND)",
                        "CC wiring missing (USB-C selected)">>

(***************************************************************************)
(* C10                                                                     *)
(***************************************************************************)
\* C10: "Charging Cable (Incomplete Power Wiring)" is never returned: every
\* call with power_partial true lists "Power wiring incomplete (VBUS/GND)"
\* as a broken pair and is classified DAMAGED CABLE.
C10_NoChargingIncomplete ==
    Returned =>
        /\ cable_type # CHARGING_INCOMPLETE
        /\ flags.power_partial =>
              /\ Has(broken_pairs, "Power wiring incomplete (VBUS/GND)")
              /\ cable_type = DAMAGED_CABLE
        /\ flags.power_partial <=>
              /\ GivenCount("VBUS") > 0 \/ GivenCount("GND") > 0
              /\ IF DeclaresBothC
                 THEN ~(GivenCount("VBUS") >= 2 /\ GivenCount("GND") >= 4)
                 ELSE ~(GivenCount("VBUS") >= 1 /\ GivenCount("GND") >= 1)

C10_Witness ==
    /\ Returned
    /\ flags.power_partial /\ ~flags.usb2 /\ flags.ss_count = 0
    /\ broken_pairs = <<"Power wiring incomplete (VBUS/GND)">>
    /\ cable_type = DAMAGED_CABLE

(***************************************************************************)
(* C11                                                                     *)
(***************************************************************************)
\* C11: Premium USB-C (Full Featured) and USB 3.x Fast Data Cable are
\* returned only when both declared connectors are "Type C 3.0"; with any
\* other connector selection, none included, a call with all eight
\* SuperSpeed pins active is classified DAMAGED CABLE or connector
\* mismatch.
C11_FullSpeedNeedsBothC ==
    Returned =>
        /\ cable_type \in {PREMIUM_USB_C, USB3_FAST_DATA} =>
              /\ DeclaresBothC
              /\ flags.full_usb_c_candidate
        /\ (SS_PINS \subseteq active_pins /\ ~DeclaresBothC) =>
              /\ cable_type \in {DAMAGED_CABLE, CONNECTOR_MISMATCH}
              /\ flags.mismatch_ss

C11_Witness ==
    /\ Returned
    /\ left_connector = "Type C 3.0" /\ right_connector = "Type A 3.0"
    /\ active_pins = FullFeaturedPins
    /\ broken_pairs = <<>>
    /\ cable_type = CONNECTOR_MISMATCH

(***************************************************************************)
(* C12                                                                     *)
(***************************************************************************)
CheckedKeys == {k \in VarKeySet : self.vars[k]}

\* The logical signal of a checkbox: right-side labels (indices 20..31) go
\* through right_side_translation, labels without an entry stay as they are.
LogicalName(k) ==
    IF k[2] >= 20 /\ k[1] \in DOMAIN right_side_translation
    THEN right_side_translation[k[1]]
    ELSE k[1]

DerivedActivePins == {LogicalName(k) : k \in CheckedKeys}

DerivedPinCounts ==
    [p \in DerivedActivePins |->
        Cardinality({k \in CheckedKeys : LogicalName(k) = p})]

DerivedLeftChecked ==
    {<<Pad2(k[2] + 1), k[1]>> : k \in {c \in CheckedKeys : c[2] < 20}}

DerivedRightChecked ==
    {<<Pad2(k[2] - 19), k[1]>> : k \in {c \in CheckedKeys : c[2] >= 20}}

\* C12: after any sequence of window events (checkbox toggles, left / right
\* connector selections, Select All, Unselect All), when the handler has
\* returned _suppress_update is False and the displayed report is
\* analyze_cable of the active pins, counts, connector selections and
\* checked-pin lists derived from the current checkboxes; every handler,
\* Select All and Unselect All included, has recomputed the report once.
C12_ReportFollowsCheckboxes ==
    pc = "mainloop" =>
        /\ self.suppress_update = FALSE
        /\ self.report_text =
              analyze_cable(DerivedActivePins, <<DerivedPinCounts>>,
                            self.left_connector_var, self.right_connector_var,
                            DerivedLeftChecked, DerivedRightChecked)
        /\ self.updates = 1

C12_Witness ==
    /\ pc = "mainloop"
    /\ last_event = "select_all"
    /\ \A k \in VarKeySet : self.vars[k]
    /\ self.suppress_update = FALSE
    /\ self.updates = 1
    /\ self.report_text[1] = <<PREMIUM_USB_C>>
    /\ Has(self.report_text, <<"  * Power delivery: ", "Yes">>)

====
